---- MODULE Spec2Model ----
(***************************************************************************)
(* Model of github.com/eachain/lru: the single-threaded LRU engine         *)
(* (type LRU) and the sync.RWMutex wrapper around it (type MutexLRU).      *)
(*                                                                         *)
(* A list element is named by the key of the item it was created for; a    *)
(* pointer to an element that has since been removed from the list is the  *)
(* value Detached (container/list clears next, prev and list of a removed  *)
(* element, and the engine clears its Value, so all removed elements       *)
(* behave alike).  Each thread has a call stack of frames; user code (the  *)
(* eviction callback, a yield function, the caller itself) chooses its     *)
(* calls nondeterministically.                                             *)
(***************************************************************************)
EXTENDS Integers, Sequences, FiniteSets, TLC

VARIABLES elem, items, Value, size, evicted, mut, stack, ret, panic, used,
          test

vars == <<elem, items, Value, size, evicted, mut, stack, ret, panic, used,
          test>>

\* ------------------------------------------------------------------ bounds
NumKeys == 3
MaxVal == 1
MaxSize == 2
MaxDepth == 3
MaxCalls == 1
MaxEvicted == 4
NumThreads == 2
MaxFrames == 4
NumMutexKeys == 2

Keys == 1..NumKeys
Vals == 0..MaxVal
Sizes == (-1)..MaxSize
Threads == 1..NumThreads
MutexKeys == 1..NumMutexKeys

\* ------------------------------------------------------- values of the code
Nil == 0
Detached == -1
Zero == 0

\* ---------------------------------------------------------------- helpers
Range(s) == {s[i] : i \in 1..Len(s)}

MapDel(f, k) == [x \in DOMAIN f \ {k} |-> f[x]]

MapPut(f, k, v) == [x \in DOMAIN f \cup {k} |-> IF x = k THEN v ELSE f[x]]

SeqWithout(s, e) == SelectSeq(s, LAMBDA x : x # e)

IndexOf(s, e) == CHOOSE i \in 1..Len(s) : s[i] = e

\* ------------------------------------------------- container/list, as used
PushFront(l, e) == <<e>> \o l

\* Faulty variant: no element follows.
ElemNextNone(l, e) == Nil

\* Faulty variant: the element is not promoted.
MoveToFrontNoop(l, e) == l

MoveToFront(l, e) ==
    IF e \notin Range(l) \/ l[1] = e THEN l ELSE <<e>> \o SeqWithout(l, e)

\* Faulty variant: the element stays in the list.
ListRemoveNothing(l, e) == l

ListRemove(l, e) == SeqWithout(l, e)

Front(l) == IF l = <<>> THEN Nil ELSE l[1]

\* Faulty variant: the newest element is taken for the oldest.
BackIsFront(l) == IF l = <<>> THEN Nil ELSE l[1]

Back(l) == IF l = <<>> THEN Nil ELSE l[Len(l)]

ElemNext(l, e) ==
    IF e \notin Range(l) THEN Nil
    ELSE IF IndexOf(l, e) = Len(l) THEN Nil ELSE l[IndexOf(l, e) + 1]

ElemPrev(l, e) ==
    IF e \notin Range(l) THEN Nil
    ELSE IF IndexOf(l, e) = 1 THEN Nil ELSE l[IndexOf(l, e) - 1]

\* ------------------------------------------------------------ cache state
Cache == [elem |-> elem, items |-> items, Value |-> Value]

item(key, value) == [key |-> key, value |-> value]

\* The (key, value) pairs of a list, front first.
Pairs(l, V) == [i \in 1..Len(l) |-> <<V[l[i]].key, V[l[i]].value>>]

\* ------------------------------------------------------------------ frames
\* A method in progress: pc is "lock" (called, before the lock of a MutexLRU
\* method), "run" (the lock taken), "cb" (in the eviction callback), "yield"
\* (in the yield of an iteration) or "loop" (in the endless loop of Resize).
\* snap and dirty are history: the pairs of the list when the method began,
\* and whether user code it called has re-entered the cache.
Frame(op, m, key, value, sz) ==
    [op |-> op, pc |-> "lock", m |-> m, key |-> key, value |-> value,
     size |-> sz, ev |-> 0, next |-> Nil, ok |-> FALSE, calls |-> 0,
     snap |-> <<>>, dirty |-> FALSE]

\* User code in progress, the eviction callback ("evicted") or a yield: pc is
\* "user", then under MutexLRU "lock" (before the deferred Lock of the
\* closure that called it) and "run" (the lock taken again).
UserFrame(op, m, key, value) ==
    [op |-> op, pc |-> "user", m |-> m, key |-> key, value |-> value,
     size |-> 0, ev |-> 0, next |-> Nil, ok |-> FALSE, calls |-> 0,
     snap |-> <<>>, dirty |-> FALSE]

\* What a method returned to the code that called it, until that code's next
\* step: key, value, ok and n are the results; size, snap and dirty are copied
\* from the frame of the method.
NoRet == [op |-> "none", key |-> Nil, value |-> Zero, ok |-> FALSE, n |-> 0,
          size |-> 0, snap |-> <<>>, dirty |-> FALSE]

Result(op, key, value, ok, n) ==
    [op |-> op, key |-> key, value |-> value, ok |-> ok, n |-> n,
     size |-> 0, snap |-> <<>>, dirty |-> FALSE]

Top(stk) == stk[Len(stk)]

Pop(stk) == SubSeq(stk, 1, Len(stk) - 1)

SetTop(stk, f) == [stk EXCEPT ![Len(stk)] = f]

\* A pointer held by an iteration to an element that leaves the list now
\* points to a removed element.
Invalidate(stks, gone) ==
    [t \in Threads |->
        [i \in 1..Len(stks[t]) |->
            IF stks[t][i].next \in gone
            THEN [stks[t][i] EXCEPT !.next = Detached]
            ELSE stks[t][i]]]

\* Keys in the order of their last Set or successful Get, newest first,
\* among the keys that are indexed.
Touch(u, k, present) ==
    SelectSeq(IF k = Nil THEN u ELSE <<k>> \o SeqWithout(u, k),
              LAMBDA x : x \in present)

\* ---------------------------------------------------------- sync.RWMutex
Unlocked == [w |-> 0, r |-> {}]

Free(mu) == mu.w = 0 /\ mu.r = {}

MutLock(mu, t) == [mu EXCEPT !.w = t]

MutUnlock(mu) == [mu EXCEPT !.w = 0]

MutRLock(mu, t) == [mu EXCEPT !.r = @ \cup {t}]

MutRUnlock(mu, t) == [mu EXCEPT !.r = @ \ {t}]

\* Faulty variant: Get takes the read lock as Pick does.
SharedWithGet(op) == op \in {"Pick", "Len", "Get"}

\* The methods that take the read lock.
Shared(op) == op \in {"Pick", "Len"}

\* Faulty variant: the method returns without its deferred unlock.
ReleaseNothing(mu, f, t) == mu

\* The deferred Unlock or RUnlock of a MutexLRU method.
Release(mu, f, t) ==
    IF ~f.m THEN mu
    ELSE IF Shared(f.op) THEN MutRUnlock(mu, t) ELSE MutUnlock(mu)

\* ------------------------------------------------------------ one step
\* The end of every step of thread t: the cache c, the thread's stack stk,
\* its pending return value r, the lock mu, and the key k touched (or Nil).
Commit(t, c, stk, r, mu, k) ==
    /\ elem' = c.elem
    /\ items' = c.items
    /\ Value' = c.Value
    /\ stack' = Invalidate([stack EXCEPT ![t] = stk],
                           (Range(items) \ Range(c.items))
                               \cup (DOMAIN Value \ DOMAIN c.Value))
    /\ ret' = [ret EXCEPT ![t] = r]
    /\ mut' = mu
    /\ used' = Touch(used, k, DOMAIN c.elem)

\* The method whose frame tops stk returns r; mu is the lock as the thread
\* holds it.  What it returns is recorded, with the history of its frame,
\* for the methods of LRU called directly; the methods of MutexLRU return
\* what those of LRU return to them.
Return(t, c, stk, r, mu, k) ==
    Commit(t, c, Pop(stk),
           IF Top(stk).m THEN NoRet
           ELSE [r EXCEPT !.dirty = Top(stk).dirty, !.snap = Top(stk).snap,
                          !.size = Top(stk).size],
           Release(mu, Top(stk), t), k)

\* Faulty variant: the closure MutexLRU registered does not unlock.
NotifyLocked(t, c, stk, it, mu, k) ==
    Commit(t, c,
           Append(SetTop(stk, [Top(stk) EXCEPT !.pc = "cb"]),
                  UserFrame("evicted", evicted = "mcb", it.key, it.value)),
           NoRet, mu, k)

\* lru.evicted(it.key, it.value) is called from the frame topping stk, which
\* waits at pc "cb"; the closure MutexLRU registered unlocks before it calls
\* the user's function.
Notify(t, c, stk, it, mu, k) ==
    Commit(t, c,
           Append(SetTop(stk, [Top(stk) EXCEPT !.pc = "cb"]),
                  UserFrame("evicted", evicted = "mcb", it.key, it.value)),
           NoRet,
           IF evicted = "mcb" THEN MutUnlock(mu) ELSE mu,
           k)

\* ------------------------------------------------------------------- New
New(sz) ==
    /\ elem = <<>>
    /\ items = <<>>
    /\ Value = <<>>
    /\ size = sz
    /\ evicted = "nil"

\* ------------------------------------------------------------- OnEvicted
\* LRU.OnEvicted stores the function given (value 1, or nil); MutexLRU's
\* stores its closure around it.
OnEvicted(t, stk, mu) ==
    /\ evicted' = IF Top(stk).m THEN "mcb"
                  ELSE IF Top(stk).value = 1 THEN "cb" ELSE "nil"
    /\ Return(t, Cache, stk, Result("OnEvicted", Nil, Zero, FALSE, 0), mu, Nil)
    /\ UNCHANGED <<size, panic>>

\* ---------------------------------------------------------- RemoveOldest
\* Faulty variant: the back element stays in the index.
OldestKeepIndex(c) ==
    [elem |-> c.elem,
     items |-> ListRemove(c.items, Back(c.items)),
     Value |-> MapDel(c.Value, Back(c.items))]

\* The back element is emptied, unindexed and unlinked.
Oldest(c) ==
    [elem |-> MapDel(c.elem, c.Value[Back(c.items)].key),
     items |-> ListRemove(c.items, Back(c.items)),
     Value |-> MapDel(c.Value, Back(c.items))]

RemoveOldest(t, stk, mu) ==
    /\ IF Back(items) = Nil
       THEN Return(t, Cache, stk,
                   Result("RemoveOldest", Nil, Zero, FALSE, 0), mu, Nil)
       ELSE LET it == Value[Back(items)]
                stk2 == SetTop(stk, [Top(stk) EXCEPT !.key = it.key,
                                                     !.value = it.value])
            IN  IF evicted # "nil"
                THEN Notify(t, Oldest(Cache), stk2, it, mu, Nil)
                ELSE Return(t, Oldest(Cache), stk2,
                            Result("RemoveOldest", it.key, it.value, TRUE, 0),
                            mu, Nil)
    /\ UNCHANGED <<size, evicted, panic>>

\* -------------------------------------------------------------------- Set
\* Faulty variant: the test is off by one.
FullOffByOne(c) == size > 0 /\ Len(c.items) > size + 1

\* The test that follows PushFront.
Full(c) == size > 0 /\ Len(c.items) > size

\* Faulty variant: the value of a key already there is not replaced.
SetKeepsValue(t, stk, mu) ==
    /\ LET key == Top(stk).key
           value == Top(stk).value
           r == Result("Set", key, value, FALSE, 0)
           pushed == [elem |-> MapPut(elem, key, key),
                      items |-> PushFront(items, key),
                      Value |-> MapPut(Value, key, item(key, value))]
       IN  IF key \in DOMAIN elem
           THEN Return(t, [Cache EXCEPT
                              !.items = MoveToFront(items, elem[key])],
                       stk, r, mu, key)
           ELSE IF Full(pushed)
                THEN IF evicted # "nil"
                     THEN Notify(t, Oldest(pushed), stk,
                                 pushed.Value[Back(pushed.items)], mu, key)
                     ELSE Return(t, Oldest(pushed), stk, r, mu, key)
                ELSE Return(t, pushed, stk, r, mu, key)
    /\ UNCHANGED <<size, evicted, panic>>

Set(t, stk, mu) ==
    /\ LET key == Top(stk).key
           value == Top(stk).value
           r == Result("Set", key, value, FALSE, 0)
           pushed == [elem |-> MapPut(elem, key, key),
                      items |-> PushFront(items, key),
                      Value |-> MapPut(Value, key, item(key, value))]
       IN  IF key \in DOMAIN elem
           THEN Return(t, [Cache EXCEPT
                              !.items = MoveToFront(items, elem[key]),
                              !.Value = MapPut(Value, elem[key],
                                               item(key, value))],
                       stk, r, mu, key)
           ELSE IF Full(pushed)
                THEN IF evicted # "nil"
                     THEN Notify(t, Oldest(pushed), stk,
                                 pushed.Value[Back(pushed.items)], mu, key)
                     ELSE Return(t, Oldest(pushed), stk, r, mu, key)
                ELSE Return(t, pushed, stk, r, mu, key)
    /\ UNCHANGED <<size, evicted, panic>>

\* -------------------------------------------------------------------- Get
Get(t, stk, mu) ==
    /\ LET key == Top(stk).key
       IN  IF key \in DOMAIN elem
           THEN Return(t, [Cache EXCEPT !.items = MoveToFront(items, elem[key])],
                       stk, Result("Get", key, Value[elem[key]].value, TRUE, 0),
                       mu, key)
           ELSE Return(t, Cache, stk, Result("Get", key, Zero, FALSE, 0), mu, Nil)
    /\ UNCHANGED <<size, evicted, panic>>

\* ------------------------------------------------------------------- Pick
\* Faulty variant: Pick promotes the element as Get does.
PickPromotes(t, stk, mu) ==
    /\ LET key == Top(stk).key
       IN  IF key \in DOMAIN elem
           THEN Return(t, [Cache EXCEPT !.items = MoveToFront(items, elem[key])],
                       stk, Result("Pick", key, Value[elem[key]].value, TRUE, 0),
                       mu, Nil)
           ELSE Return(t, Cache, stk, Result("Pick", key, Zero, FALSE, 0), mu, Nil)
    /\ UNCHANGED <<size, evicted, panic>>

Pick(t, stk, mu) ==
    /\ LET key == Top(stk).key
       IN  IF key \in DOMAIN elem
           THEN Return(t, Cache, stk,
                       Result("Pick", key, Value[elem[key]].value, TRUE, 0),
                       mu, Nil)
           ELSE Return(t, Cache, stk, Result("Pick", key, Zero, FALSE, 0), mu, Nil)
    /\ UNCHANGED <<size, evicted, panic>>

\* Faulty variant: a key that is not there is removed all the same, and the
\* callback gets the zero value.
RemoveNotifiesMiss(t, stk, mu) ==
    /\ LET key == Top(stk).key
       IN  IF evicted # "nil"
           THEN Notify(t, Cache, stk, item(key, Zero), mu, Nil)
           ELSE Return(t, Cache, stk, Result("Remove", key, Zero, FALSE, 0),
                       mu, Nil)
    /\ UNCHANGED <<size, evicted, panic>>

\* ----------------------------------------------------------------- Remove
\* Faulty variant: Remove does not call the eviction callback.
RemoveSilent(t, stk, mu) ==
    /\ LET key == Top(stk).key
       IN  IF key \in DOMAIN elem
           THEN LET it == Value[elem[key]]
                    c == [elem |-> MapDel(elem, it.key),
                          items |-> ListRemove(items, elem[key]),
                          Value |-> MapDel(Value, elem[key])]
                IN  Return(t, c, stk, Result("Remove", key, it.value, TRUE, 0),
                           mu, Nil)
           ELSE Return(t, Cache, stk, Result("Remove", key, Zero, FALSE, 0),
                       mu, Nil)
    /\ UNCHANGED <<size, evicted, panic>>

Remove(t, stk, mu) ==
    /\ LET key == Top(stk).key
       IN  IF key \in DOMAIN elem
           THEN LET it == Value[elem[key]]
                    c == [elem |-> MapDel(elem, it.key),
                          items |-> ListRemove(items, elem[key]),
                          Value |-> MapDel(Value, elem[key])]
                    stk2 == SetTop(stk, [Top(stk) EXCEPT !.value = it.value])
                IN  IF evicted # "nil"
                    THEN Notify(t, c, stk2, it, mu, Nil)
                    ELSE Return(t, c, stk2,
                                Result("Remove", key, it.value, TRUE, 0), mu, Nil)
           ELSE Return(t, Cache, stk, Result("Remove", key, Zero, FALSE, 0),
                       mu, Nil)
    /\ UNCHANGED <<size, evicted, panic>>

\* -------------------------------------------------------------------- Len
LenOp(t, stk, mu) ==
    /\ Return(t, Cache, stk, Result("Len", Nil, Zero, FALSE, Len(items)), mu, Nil)
    /\ UNCHANGED <<size, evicted, panic>>

\* ----------------------------------------------------------------- Resize
\* Faulty variant: the evictions are not counted.
IncNothing(n, d) == n

\* evicted++, d times, on an int of the width of the model: it wraps around.
Inc(n, d) == (n + d) % (MaxEvicted + 1)

\* n calls of RemoveOldest with no callback registered.
RECURSIVE Drain(_, _)
Drain(c, n) == IF n = 0 \/ c.items = <<>> THEN c ELSE Drain(Oldest(c), n - 1)

\* The loop of Resize, up to its next callback or its return.  With a
\* negative size the condition never fails: RemoveOldest finds nothing more
\* and the loop goes on counting (pc "loop").
ResizeLoop(t, stk, mu) ==
    LET f == Top(stk)
        n == IF Len(items) > f.size
             THEN Len(items) - (IF f.size < 0 THEN 0 ELSE f.size)
             ELSE 0
    IN  IF f.size < 0 /\ (items = <<>> \/ evicted = "nil")
        THEN Commit(t, Drain(Cache, n),
                    SetTop(stk, [f EXCEPT !.pc = "loop", !.ev = Inc(@, n + 1)]),
                    NoRet, mu, Nil)
        ELSE IF n = 0
             THEN Return(t, Cache, stk, Result("Resize", Nil, Zero, FALSE, f.ev),
                         mu, Nil)
             ELSE IF evicted # "nil"
                  THEN Notify(t, Oldest(Cache), stk, Value[Back(items)], mu, Nil)
                  ELSE Return(t, Drain(Cache, n), stk,
                              Result("Resize", Nil, Zero, FALSE, Inc(f.ev, n)),
                              mu, Nil)

\* Faulty variant: Resize stores the size and evicts nothing.
ResizeNoLoop(t, stk, mu) ==
    /\ size' = Top(stk).size
    /\ Return(t, Cache, stk, Result("Resize", Nil, Zero, FALSE, 0), mu, Nil)
    /\ UNCHANGED <<evicted, panic>>

Resize(t, stk, mu) ==
    /\ size' = Top(stk).size
    /\ ResizeLoop(t, SetTop(stk, [Top(stk) EXCEPT !.snap = Pairs(items, Value)]),
                  mu)
    /\ UNCHANGED <<evicted, panic>>

\* ------------------------------------------------------------------ Clear
\* Faulty variant: an if in place of the for, one entry is removed.
ClearOnce(t, stk, mu) ==
    IF evicted = "nil" \/ items = <<>> \/ Top(stk).ev >= 1
    THEN Return(t, Cache, stk, Result("Clear", Nil, Zero, FALSE, Top(stk).ev),
                mu, Nil)
    ELSE Notify(t, Oldest(Cache),
                SetTop(stk, [Top(stk) EXCEPT !.ev = Inc(@, 1)]),
                Value[Back(items)], mu, Nil)

\* The loop of Clear, up to its next callback or its return; ev counts the
\* callbacks it has called (history).
ClearLoop(t, stk, mu) ==
    IF evicted = "nil" \/ items = <<>>
    THEN Return(t, Drain(Cache, Len(items)), stk,
                Result("Clear", Nil, Zero, FALSE, Top(stk).ev), mu, Nil)
    ELSE Notify(t, Oldest(Cache),
                SetTop(stk, [Top(stk) EXCEPT !.ev = Inc(@, 1)]),
                Value[Back(items)], mu, Nil)

Clear(t, stk, mu) ==
    /\ ClearLoop(t, SetTop(stk, [Top(stk) EXCEPT !.snap = Pairs(items, Value)]),
                 mu)
    /\ UNCHANGED <<size, evicted, panic>>

\* -------------------------------------------------------- All, Backward
\* One pass of the loop of All or Backward on the element cur: the loop
\* condition, the pointer to go on with, the item of the element, and the
\* yield; the closure of MutexLRU unlocks before it calls the user's yield.
\* snap and size are the pairs and the capacity when the iteration began
\* and ev counts the yields, as long as none has changed the cache (history);
\* what is returned is history too: n is that count and ok tells that the
\* loop ran to its end.
Iterate(t, stk, mu, cur) ==
    LET f == Top(stk)
    IN  IF cur = Nil
        THEN /\ Return(t, Cache, stk, Result(f.op, Nil, Zero, TRUE, f.ev), mu, Nil)
             /\ UNCHANGED panic
        ELSE IF cur \notin DOMAIN Value
             THEN /\ panic' = "interface conversion: interface {} is nil"
                  /\ Commit(t, Cache, stk, NoRet, mu, Nil)
             ELSE /\ Commit(t, Cache,
                            Append(SetTop(stk, [f EXCEPT
                                      !.pc = "yield",
                                      !.ev = IF f.dirty THEN 0
                                             ELSE Inc(@, 1),
                                      !.next = IF f.op = "All"
                                               THEN ElemNext(items, cur)
                                               ELSE ElemPrev(items, cur)]),
                                   UserFrame("yield", f.m, Value[cur].key,
                                             Value[cur].value)),
                            NoRet,
                            IF f.m THEN MutUnlock(mu) ELSE mu,
                            Nil)
                  /\ UNCHANGED panic

All(t, stk, mu) ==
    /\ Iterate(t, SetTop(stk, [Top(stk) EXCEPT !.snap = Pairs(items, Value),
                                               !.size = size]),
               mu, Front(items))
    /\ UNCHANGED <<size, evicted>>

Backward(t, stk, mu) ==
    /\ Iterate(t, SetTop(stk, [Top(stk) EXCEPT !.snap = Pairs(items, Value),
                                               !.size = size]),
               mu, Back(items))
    /\ UNCHANGED <<size, evicted>>

\* ---------------------------------------------------------- call, return
\* The method of the frame topping stk runs, up to its first callback or
\* yield, or to its return.
Run(t, stk, mu) ==
    CASE Top(stk).op = "OnEvicted" -> OnEvicted(t, stk, mu)
      [] Top(stk).op = "Set" -> Set(t, stk, mu)
      [] Top(stk).op = "Get" -> Get(t, stk, mu)
      [] Top(stk).op = "Pick" -> Pick(t, stk, mu)
      [] Top(stk).op = "Remove" -> Remove(t, stk, mu)
      [] Top(stk).op = "RemoveOldest" -> RemoveOldest(t, stk, mu)
      [] Top(stk).op = "Resize" -> Resize(t, stk, mu)
      [] Top(stk).op = "Len" -> LenOp(t, stk, mu)
      [] Top(stk).op = "Clear" -> Clear(t, stk, mu)
      [] Top(stk).op = "All" -> All(t, stk, mu)
      [] Top(stk).op = "Backward" -> Backward(t, stk, mu)

\* Faulty variant: the iteration goes on whatever the yield returned.
ResumeIgnoresStop(t, stk, mu, ok) ==
    LET f == Top(stk)
    IN  CASE f.op \in {"Set", "Remove", "RemoveOldest"} ->
               /\ Return(t, Cache, stk,
                         Result(f.op, f.key, f.value, f.op # "Set", 0), mu, Nil)
               /\ UNCHANGED <<size, evicted, panic>>
          [] f.op = "Resize" ->
               /\ ResizeLoop(t, SetTop(stk, [f EXCEPT !.ev = Inc(@, 1)]), mu)
               /\ UNCHANGED <<size, evicted, panic>>
          [] f.op = "Clear" ->
               /\ ClearLoop(t, stk, mu)
               /\ UNCHANGED <<size, evicted, panic>>
          [] f.op \in {"All", "Backward"} ->
               /\ Iterate(t, stk, mu, f.next)
               /\ UNCHANGED <<size, evicted>>

\* The method of the frame topping stk goes on after its callback, or its
\* yield (which returned ok), has returned.
Resume(t, stk, mu, ok) ==
    LET f == Top(stk)
    IN  CASE f.op \in {"Set", "Remove", "RemoveOldest"} ->
               /\ Return(t, Cache, stk,
                         Result(f.op, f.key, f.value, f.op # "Set", 0), mu, Nil)
               /\ UNCHANGED <<size, evicted, panic>>
          [] f.op = "Resize" ->
               /\ ResizeLoop(t, SetTop(stk, [f EXCEPT !.ev = Inc(@, 1)]), mu)
               /\ UNCHANGED <<size, evicted, panic>>
          [] f.op = "Clear" ->
               /\ ClearLoop(t, stk, mu)
               /\ UNCHANGED <<size, evicted, panic>>
          [] f.op \in {"All", "Backward"} ->
               /\ IF ok
                  THEN Iterate(t, stk, mu, f.next)
                  ELSE /\ Return(t, Cache, stk,
                                 Result(f.op, Nil, Zero, FALSE, f.ev), mu, Nil)
                       /\ UNCHANGED panic
               /\ UNCHANGED <<size, evicted>>

Active(t) == panic = "none" /\ stack[t] # <<>>

\* The user's function returns (ok, for a yield); under MutexLRU the closure
\* that called it has its deferred Lock to run first.
UserReturn(t, op, ok) ==
    /\ Active(t)
    /\ UNCHANGED test
    /\ Top(stack[t]).op = op
    /\ Top(stack[t]).pc = "user"
    /\ IF Top(stack[t]).m
       THEN /\ Commit(t, Cache,
                      SetTop(stack[t], [Top(stack[t]) EXCEPT !.pc = "lock",
                                                            !.ok = ok]),
                      NoRet, mut, Nil)
            /\ UNCHANGED <<size, evicted, panic>>
       ELSE Resume(t, Pop(stack[t]), mut, ok)

EvictedReturn(t) == UserReturn(t, "evicted", TRUE)

YieldReturn(t, ok) == UserReturn(t, "yield", ok)

\* The loop of a Resize to a negative size goes on.
Spin(t) ==
    /\ Active(t)
    /\ UNCHANGED test
    /\ Top(stack[t]).op = "Resize"
    /\ Top(stack[t]).pc = "loop"
    /\ ResizeLoop(t, stack[t], mut)
    /\ UNCHANGED <<size, evicted, panic>>

\* A thread may call a method when it runs none, or from the user's code of
\* a callback or a yield.
CanCall(t) ==
    /\ panic = "none"
    /\ IF stack[t] = <<>> THEN TRUE
       ELSE /\ Top(stack[t]).pc = "user"
            /\ Len(stack[t]) < MaxDepth
            /\ Top(stack[t]).calls < MaxCalls

\* Methods that change nothing of the cache themselves.
Pure(op) == op \in {"Pick", "Len", "All", "Backward"}

\* The history of the methods in progress on stack stk when method op is
\* called meanwhile: unless op is pure, the cache is no longer theirs alone.
Disturbed(stk, op) ==
    [i \in 1..Len(stk) |->
        [stk[i] EXCEPT !.dirty = @ \/ ~Pure(op),
                       !.snap = IF Pure(op) \/ stk[i].op = "Resize"
                                THEN @ ELSE <<>>,
                       !.ev = IF ~Pure(op) /\ stk[i].op \in {"All", "Backward"}
                              THEN 0 ELSE @]]

\* The stack of user code that calls method op.
Calling(stk, op) ==
    [i \in 1..Len(stk) |->
        [Disturbed(stk, op)[i] EXCEPT !.calls = IF i = Len(stk) THEN @ + 1
                                                ELSE @]]

\* A call of a method of LRU: the stack with its frame.
Call(t, op, key, value, sz) ==
    Append(Calling(stack[t], op), Frame(op, FALSE, key, value, sz))

CallOnEvicted(t) ==
    /\ CanCall(t)
    /\ UNCHANGED test
    /\ \E cb \in 0..1 : Run(t, Call(t, "OnEvicted", Nil, cb, 0), mut)

CallSet(t) ==
    /\ CanCall(t)
    /\ UNCHANGED test
    /\ \E k \in Keys, v \in Vals : Run(t, Call(t, "Set", k, v, 0), mut)

CallGet(t) ==
    /\ CanCall(t)
    /\ UNCHANGED test
    /\ \E k \in Keys : Run(t, Call(t, "Get", k, Zero, 0), mut)

CallPick(t) ==
    /\ CanCall(t)
    /\ UNCHANGED test
    /\ \E k \in Keys : Run(t, Call(t, "Pick", k, Zero, 0), mut)

CallRemove(t) ==
    /\ CanCall(t)
    /\ UNCHANGED test
    /\ \E k \in Keys : Run(t, Call(t, "Remove", k, Zero, 0), mut)

CallRemoveOldest(t) ==
    /\ CanCall(t)
    /\ UNCHANGED test
    /\ Run(t, Call(t, "RemoveOldest", Nil, Zero, 0), mut)

CallResize(t) ==
    /\ CanCall(t)
    /\ UNCHANGED test
    /\ \E n \in Sizes : Run(t, Call(t, "Resize", Nil, Zero, n), mut)

CallLen(t) ==
    /\ CanCall(t)
    /\ UNCHANGED test
    /\ Run(t, Call(t, "Len", Nil, Zero, 0), mut)

CallClear(t) ==
    /\ CanCall(t)
    /\ UNCHANGED test
    /\ Run(t, Call(t, "Clear", Nil, Zero, 0), mut)

CallAll(t) ==
    /\ CanCall(t)
    /\ UNCHANGED test
    /\ Run(t, Call(t, "All", Nil, Zero, 0), mut)

CallBackward(t) ==
    /\ CanCall(t)
    /\ UNCHANGED test
    /\ Run(t, Call(t, "Backward", Nil, Zero, 0), mut)

\* ------------------------------------------------- the engine used alone
Init ==
    /\ \E sz \in 0..MaxSize : New(sz)
    /\ mut = Unlocked
    /\ stack = [t \in Threads |-> <<>>]
    /\ ret = [t \in Threads |-> NoRet]
    /\ panic = "none"
    /\ used = <<>>
    /\ test = [i |-> 0, evicted |-> 0, failed |-> FALSE, log |-> <<>>]

Next ==
    \/ CallOnEvicted(1)
    \/ CallSet(1)
    \/ CallGet(1)
    \/ CallPick(1)
    \/ CallRemove(1)
    \/ CallRemoveOldest(1)
    \/ CallResize(1)
    \/ CallLen(1)
    \/ CallClear(1)
    \/ CallAll(1)
    \/ CallBackward(1)
    \/ EvictedReturn(1)
    \/ \E ok \in BOOLEAN : YieldReturn(1, ok)
    \/ Spin(1)

Spec == Init /\ [][Next]_vars

\* The goroutine goes on running: a callback or a yield that can return
\* does, and the loop of Resize takes its next pass.
Fairness ==
    /\ WF_vars(EvictedReturn(1))
    /\ WF_vars(\E ok \in BOOLEAN : YieldReturn(1, ok))
    /\ WF_vars(Spin(1))

SpecFair == Init /\ [][Next]_vars /\ Fairness

\* --------------------------------------------------------------- MutexLRU
\* A call of a method of MutexLRU: the thread is at its Lock or RLock.
MCall(t, op, key, value, sz) ==
    /\ CanCall(t)
    /\ stack' = [stack EXCEPT
                    ![t] = Append(Calling(@, op), Frame(op, TRUE, key, value, sz))]
    /\ ret' = [ret EXCEPT ![t] = NoRet]
    /\ UNCHANGED <<elem, items, Value, size, evicted, mut, panic, used>>

\* The method that runs once the thread whose stack is stk has the lock:
\* the one called, or the one that goes on after its callback or yield.
Resumed(stk) ==
    IF Top(stk).op \in {"evicted", "yield"} THEN stk[Len(stk) - 1].op
    ELSE Top(stk).op

\* The thread passes the lock call it waits at; the methods in progress on
\* the other threads, waiting in user code, are no longer alone (history).
Acquire(t, mu) ==
    /\ stack' = [u \in Threads |->
                    IF u = t
                    THEN SetTop(stack[t], [Top(stack[t]) EXCEPT !.pc = "run"])
                    ELSE Disturbed(stack[u], Resumed(stack[t]))]
    /\ mut' = mu
    /\ UNCHANGED <<elem, items, Value, size, evicted, ret, panic, used, test>>

\* m.mut.Lock() at the head of a method, or deferred by the closure around the
\* user's callback or yield.
Lock(t) ==
    /\ Active(t)
    /\ Top(stack[t]).pc = "lock"
    /\ ~Shared(Top(stack[t]).op)
    /\ Free(mut)
    /\ Acquire(t, MutLock(mut, t))

\* m.mut.RLock() at the head of Pick and Len.
RLock(t) ==
    /\ Active(t)
    /\ Top(stack[t]).pc = "lock"
    /\ Shared(Top(stack[t]).op)
    /\ mut.w = 0
    /\ Acquire(t, MutRLock(mut, t))

\* Under the lock: the method of LRU runs, or goes on after the user's code,
\* up to its next callback or yield, or to its return and the deferred unlock.
Locked(t) ==
    /\ Active(t)
    /\ Top(stack[t]).pc = "run"
    /\ IF Top(stack[t]).op \in {"evicted", "yield"}
       THEN Resume(t, Pop(stack[t]), mut, Top(stack[t]).ok)
       ELSE Run(t, stack[t], mut)
    /\ UNCHANGED test

\* The number of calls in progress on threads 1..n.
RECURSIVE Frames(_)
Frames(n) == IF n = 0 THEN 0 ELSE Len(stack[n]) + Frames(n - 1)

\* A call of a method of MutexLRU, up to the return of its Lock or RLock:
\* MCall, then Lock or RLock, in one step.
MEnter(t, op, key, value, sz) ==
    /\ CanCall(t)
    /\ Frames(NumThreads) < MaxFrames
    /\ IF Shared(op) THEN mut.w = 0 ELSE Free(mut)
    /\ stack' = [u \in Threads |->
                    IF u = t
                    THEN Append(Calling(stack[t], op),
                                [Frame(op, TRUE, key, value, sz)
                                    EXCEPT !.pc = "run"])
                    ELSE Disturbed(stack[u], op)]
    /\ mut' = IF Shared(op) THEN MutRLock(mut, t) ELSE MutLock(mut, t)
    /\ ret' = [ret EXCEPT ![t] = NoRet]
    /\ UNCHANGED <<elem, items, Value, size, evicted, panic, used, test>>

\* The user's function returns to the closure of MutexLRU that called it, up
\* to the return of the deferred Lock: UserReturn, then Lock, in one step.
MUserReturn(t, op, ok) ==
    /\ Active(t)
    /\ Top(stack[t]).op = op
    /\ Top(stack[t]).pc = "user"
    /\ Top(stack[t]).m
    /\ Free(mut)
    /\ stack' = [u \in Threads |->
                    IF u = t
                    THEN SetTop(stack[t], [Top(stack[t]) EXCEPT !.pc = "run",
                                                               !.ok = ok])
                    ELSE Disturbed(stack[u], Resumed(stack[t]))]
    /\ mut' = MutLock(mut, t)
    /\ ret' = [ret EXCEPT ![t] = NoRet]
    /\ UNCHANGED <<elem, items, Value, size, evicted, panic, used, test>>

MutexOnEvicted(t) == MEnter(t, "OnEvicted", Nil, 1, 0)

MutexSet(t) == \E k \in MutexKeys : MEnter(t, "Set", k, Zero, 0)

MutexGet(t) == \E k \in MutexKeys : MEnter(t, "Get", k, Zero, 0)

MutexPick(t) == \E k \in MutexKeys : MEnter(t, "Pick", k, Zero, 0)

MutexRemove(t) == \E k \in MutexKeys : MEnter(t, "Remove", k, Zero, 0)

MutexRemoveOldest(t) == MEnter(t, "RemoveOldest", Nil, Zero, 0)

MutexResize(t) == \E n \in Sizes : MEnter(t, "Resize", Nil, Zero, n)

MutexLen(t) == MEnter(t, "Len", Nil, Zero, 0)

MutexClear(t) == MEnter(t, "Clear", Nil, Zero, 0)

MutexAll(t) == MEnter(t, "All", Nil, Zero, 0)

MutexBackward(t) == MEnter(t, "Backward", Nil, Zero, 0)

MutexEvictedReturn(t) == MUserReturn(t, "evicted", TRUE)

MutexYieldReturn(t, ok) == MUserReturn(t, "yield", ok)

\* ------------------------------------------- MutexLRU used by the threads
NextMutex ==
    \E t \in Threads :
        \/ MutexOnEvicted(t)
        \/ MutexSet(t)
        \/ MutexGet(t)
        \/ MutexPick(t)
        \/ MutexRemove(t)
        \/ MutexRemoveOldest(t)
        \/ MutexResize(t)
        \/ MutexLen(t)
        \/ MutexClear(t)
        \/ MutexAll(t)
        \/ MutexBackward(t)
        \/ Locked(t)
        \/ MutexEvictedReturn(t)
        \/ \E ok \in BOOLEAN : MutexYieldReturn(t, ok)
        \/ Spin(t)

SpecMutex == Init /\ [][NextMutex]_vars

\* --------------------------- MutexLRU: Set and Resize against the readers
\* MutexLRU.Set with any of the keys.
CapacitySet(t) == \E k \in Keys : MEnter(t, "Set", k, Zero, 0)

\* The threads register the callback, call Set and Resize, and read Len.
NextCapacity ==
    \E t \in Threads :
        \/ MutexOnEvicted(t)
        \/ CapacitySet(t)
        \/ MutexResize(t)
        \/ MutexLen(t)
        \/ Locked(t)
        \/ MutexEvictedReturn(t)
        \/ Spin(t)

SpecCapacity == Init /\ [][NextCapacity]_vars

\* ---------------------------------------------- TestMutexOnEvictedSet
TestSize == 3
TestKeys == <<1, 2, 3, 4>>
TestValue == 999

TestDone == test.i > Len(TestKeys) /\ stack[1] = <<>>

\* lru := NewWithMutex[string, int](3), keys and evicted.
InitTest ==
    /\ New(TestSize)
    /\ mut = Unlocked
    /\ stack = [t \in Threads |-> <<>>]
    /\ ret = [t \in Threads |-> NoRet]
    /\ panic = "none"
    /\ used = <<>>
    /\ test = [i |-> 0, evicted |-> 0, failed |-> FALSE, log |-> <<>>]

\* lru.OnEvicted(func(key string, value int) {...})
TestOnEvicted ==
    /\ ~test.failed
    /\ test.i = 0
    /\ stack[1] = <<>>
    /\ MCall(1, "OnEvicted", Nil, 1, 0)
    /\ test' = [test EXCEPT !.i = 1]

\* for i, k := range keys { lru.Set(k, i) }
TestSet ==
    /\ ~test.failed
    /\ test.i \in 1..Len(TestKeys)
    /\ stack[1] = <<>>
    /\ MCall(1, "Set", TestKeys[test.i], test.i - 1, 0)
    /\ test' = [test EXCEPT !.i = @ + 1]

\* The callback of the test, up to its call of Set or its return; log is the
\* history of its calls.
TestCallback ==
    /\ ~test.failed
    /\ Active(1)
    /\ Top(stack[1]).op = "evicted"
    /\ Top(stack[1]).pc = "user"
    /\ Top(stack[1]).calls = 0
    /\ LET key == Top(stack[1]).key
           value == Top(stack[1]).value
           log == Append(test.log, <<key, value>>)
       IN  IF value # test.evicted
           THEN /\ test' = [test EXCEPT !.failed = TRUE, !.log = log]
                /\ UNCHANGED <<elem, items, Value, size, evicted, mut, stack,
                               ret, panic, used>>
           ELSE /\ test' = [test EXCEPT !.evicted = @ + 1, !.log = log]
                /\ IF key = TestKeys[1]
                   THEN MCall(1, "Set", key, TestValue, 0)
                   ELSE /\ Commit(1, Cache,
                                  SetTop(stack[1], [Top(stack[1]) EXCEPT
                                                       !.pc = "lock",
                                                       !.ok = TRUE]),
                                  NoRet, mut, Nil)
                        /\ UNCHANGED <<size, evicted, panic>>

\* The callback returns after its call of Set.
TestCallbackReturn ==
    /\ ~test.failed
    /\ Active(1)
    /\ Top(stack[1]).calls = 1
    /\ EvictedReturn(1)

\* Another thread reads the cache meanwhile.
ReaderPick ==
    /\ ~test.failed
    /\ \E k \in Range(TestKeys) : MCall(2, "Pick", k, Zero, 0)
    /\ UNCHANGED test

ReaderLen ==
    /\ ~test.failed
    /\ MCall(2, "Len", Nil, Zero, 0)
    /\ UNCHANGED test

\* The thread of the test at a lock call, and under the lock; t.Fatalf ends it.
TestLock ==
    /\ ~test.failed
    /\ Lock(1)

TestLocked ==
    /\ ~test.failed
    /\ Locked(1)

ReaderRLock ==
    /\ ~test.failed
    /\ RLock(2)

ReaderLocked ==
    /\ ~test.failed
    /\ Locked(2)

TestThread ==
    \/ TestOnEvicted
    \/ TestSet
    \/ TestLock
    \/ TestLocked
    \/ TestCallback
    \/ TestCallbackReturn

NextTest ==
    \/ TestOnEvicted
    \/ TestSet
    \/ TestLock
    \/ TestLocked
    \/ TestCallback
    \/ TestCallbackReturn
    \/ ReaderPick
    \/ ReaderLen
    \/ ReaderRLock
    \/ ReaderLocked

SpecTest == InitTest /\ [][NextTest]_vars

\* ------------------------------------------------------------ properties
FramesOf(t) == {stack[t][i] : i \in 1..Len(stack[t])}

ResizeInProgress == \E t \in Threads : \E f \in FramesOf(t) : f.op = "Resize"

\* The key of the first pair that All yields.
FirstOfAll == IF Front(items) = Nil THEN Nil ELSE Value[Front(items)].key

\* The eviction callback has just been called on thread t and has done
\* nothing yet, given the thread's stack and pending return value.
Fresh(stk, r) ==
    /\ stk # <<>>
    /\ Top(stk).op = "evicted"
    /\ Top(stk).pc = "user"
    /\ Top(stk).calls = 0
    /\ r = NoRet

Min(a, b) == IF a < b THEN a ELSE b

\* The step is the call Set(k, v) by thread t.
IsSet(t, k, v) == CanCall(t) /\ Run(t, Call(t, "Set", k, v, 0), mut)

\* The step is the call Pick(k) by thread t.
IsPick(t, k) == CanCall(t) /\ Run(t, Call(t, "Pick", k, Zero, 0), mut)

\* C1: with a capacity above zero and no Resize in progress (so, in
\* particular, in a cache that was never resized), whenever a Set has just
\* returned, to the caller or to a callback that called it, the number of
\* entries is at most the capacity.
C1_CapacityInvariant ==
    \A t \in Threads :
        (ret[t].op = "Set" /\ size > 0 /\ ~ResizeInProgress)
            => Len(items) <= size

\* A Set called from inside the eviction callback has returned with the
\* cache at its capacity.
C1_Witness ==
    /\ ret[1].op = "Set"
    /\ stack[1] # <<>>
    /\ Top(stack[1]).op = "evicted"
    /\ size > 0
    /\ Len(items) = size
    /\ ~ResizeInProgress

\* C2: a Set of an absent key into a cache that holds as many entries as its
\* capacity (above zero) evicts exactly one entry, the one at the back of
\* the list, which is the present key whose last Set or Get is the oldest;
\* the other entries keep their order behind the new one, and the callback,
\* if any, is called with the victim.
C2_EvictionVictim ==
    [][\A k \in Keys, v \in Vals :
          (IsSet(1, k, v) /\ k \notin DOMAIN elem /\ size > 0
              /\ Len(items) = size)
          => /\ used # <<>>
             /\ Value[Back(items)].key = used[Len(used)]
             /\ DOMAIN elem' = (DOMAIN elem \cup {k}) \ {used[Len(used)]}
             /\ Pairs(items', Value')
                    = <<<<k, v>>>> \o SubSeq(Pairs(items, Value), 1,
                                            Len(items) - 1)
             /\ evicted # "nil"
                    => /\ Top(stack'[1]).op = "evicted"
                       /\ Top(stack'[1]).key = used[Len(used)]
                       /\ Top(stack'[1]).value = Value[Back(items)].value
      ]_vars

\* The callback runs for the victim of a Set into a full cache of two or
\* more entries.
C2_Witness ==
    /\ Len(stack[1]) = 2
    /\ stack[1][1].op = "Set"
    /\ Fresh(stack[1], ret[1])
    /\ size >= 2
    /\ Len(items) = size

\* C3 as claimed: whenever a Set, or a Get that found its key, has just
\* returned, the first pair All yields has that key.
C3_RecencyLaw ==
    \A t \in Threads :
        (ret[t].op = "Set" \/ (ret[t].op = "Get" /\ ret[t].ok))
            => FirstOfAll = ret[t].key

\* C3 as amended: the same, for a Set only if no eviction callback it ran
\* called a method other than Pick, Len, All and Backward.
C3_RecencyLawAmended ==
    \A t \in Threads :
        ((ret[t].op = "Set" /\ ~ret[t].dirty) \/ (ret[t].op = "Get" /\ ret[t].ok))
            => FirstOfAll = ret[t].key

\* A Get has found a key and returned while the cache holds other entries, or
\* a Set has returned with a callback registered and the cache at capacity.
C3_Witness ==
    /\ Len(items) >= 2
    /\ evicted # "nil"
    /\ size > 0
    /\ Len(items) = size
    /\ \/ ret[1].op = "Get" /\ ret[1].ok
       \/ ret[1].op = "Set" /\ ~ret[1].dirty

\* C4: a Pick of any key, present or absent, changes neither the pairs a
\* full iteration yields nor the index, the capacity or the callback, so the
\* next victim is the same.
C4_PickNonInterference ==
    [][\A k \in Keys :
          IsPick(1, k)
          => /\ Pairs(items', Value') = Pairs(items, Value)
             /\ Back(items') = Back(items)
             /\ elem' = elem
             /\ size' = size
             /\ evicted' = evicted
      ]_vars

\* A Pick has found the oldest of several entries, which is still the oldest.
C4_Witness ==
    /\ ret[1].op = "Pick"
    /\ ret[1].ok
    /\ Len(items) >= 2
    /\ Value[Back(items)].key = ret[1].key

\* C5: with a callback registered, every step removes at most one entry, an
\* entry is removed exactly when the callback is called, the callback gets
\* the key and the value the entry had, and a Set of a present key removes
\* nothing, calls nothing and keeps the number of entries.
C5_NotificationExactlyOnce ==
    [][evicted # "nil"
       => LET gone == Range(items) \ Range(items')
              called == Fresh(stack'[1], ret'[1]) /\ stack'[1] # stack[1]
          IN  /\ Cardinality(gone) <= 1
              /\ gone # {} <=> called
              /\ \A e \in gone :
                    /\ Top(stack'[1]).key = Value[e].key
                    /\ Top(stack'[1]).value = Value[e].value
              /\ \A k \in Keys, v \in Vals :
                    (IsSet(1, k, v) /\ k \in DOMAIN elem)
                    => /\ gone = {}
                       /\ ~called
                       /\ Len(items') = Len(items)
      ]_vars

\* The callback runs for an entry that Remove took out.
C5_Witness ==
    /\ Len(stack[1]) = 2
    /\ stack[1][1].op = "Remove"
    /\ Fresh(stack[1], ret[1])

\* C6: when the callback is called for (k, v), k is in neither the index nor
\* the list, whose length counts the remaining entries only; and a Get, Pick
\* or Remove of k that is the first thing the callback does finds nothing.
C6_PostRemovalNotification ==
    \A t \in Threads :
        /\ Fresh(stack[t], ret[t])
              => /\ Top(stack[t]).key \notin DOMAIN elem
                 /\ \A e \in Range(items) : Value[e].key # Top(stack[t]).key
                 /\ Len(items) = Cardinality(DOMAIN elem)
        /\ (/\ stack[t] # <<>>
            /\ Top(stack[t]).op = "evicted"
            /\ Top(stack[t]).calls = 1
            /\ ret[t].op \in {"Get", "Pick", "Remove"}
            /\ ret[t].key = Top(stack[t]).key)
              => ~ret[t].ok /\ ret[t].value = Zero

\* The callback has called Get of the key it was called for, first thing.
C6_Witness ==
    /\ stack[1] # <<>>
    /\ Top(stack[1]).op = "evicted"
    /\ Top(stack[1]).calls = 1
    /\ ret[1].op = "Get"
    /\ ret[1].key = Top(stack[1]).key
    /\ ~ret[1].ok

\* C8 as claimed: whatever the yield of an iteration does to the cache, the
\* iteration does not fail: it never goes on with an element that was removed
\* from the list, whose Value is nil.
C8_IterationSurvivesMutation == panic = "none"

\* The callback of the method for which frame i of stack stk waits was
\* called with the pair p.
Above(stk, i, p) ==
    /\ i < Len(stk)
    /\ stk[i + 1].op = "evicted"
    /\ <<stk[i + 1].key, stk[i + 1].value>> = p

\* C9: while a Clear whose callback has not re-entered the cache (but for
\* Pick, Len, All and Backward) is in progress, the entries left are the
\* newest ones, unchanged, the callback was called once for each of the
\* others, and it now runs for the newest of these: the calls go from the
\* oldest entry to the newest.  When that Clear returns, with a callback
\* registered, the callback was called once for each entry the cache held,
\* the cache is empty and no key is indexed.
C9_ClearCompleteness ==
    \A t \in Threads :
        /\ \A i \in 1..Len(stack[t]) :
              (stack[t][i].op = "Clear" /\ ~stack[t][i].dirty)
              => /\ Len(items) < Len(stack[t][i].snap)
                 /\ Pairs(items, Value)
                        = SubSeq(stack[t][i].snap, 1, Len(items))
                 /\ stack[t][i].ev = Len(stack[t][i].snap) - Len(items)
                 /\ Above(stack[t], i, stack[t][i].snap[Len(items) + 1])
        /\ (ret[t].op = "Clear" /\ ~ret[t].dirty /\ evicted # "nil")
              => /\ ret[t].n = Len(ret[t].snap)
                 /\ Len(items) = 0
                 /\ DOMAIN elem = {}

\* A Clear of two entries or more has returned, its callback having left the
\* cache alone.
C9_Witness ==
    /\ ret[1].op = "Clear"
    /\ ~ret[1].dirty
    /\ evicted # "nil"
    /\ ret[1].n >= 2
    /\ Len(ret[1].snap) >= 2

\* C10 as claimed: when a Resize to n > 0 returns from a cache of L entries,
\* it returns max(0, L - n), the min(L, n) newest entries are left with their
\* values and order, and the capacity is n.
C10_ResizePositive ==
    \A t \in Threads :
        (ret[t].op = "Resize" /\ ret[t].size > 0)
            => /\ ret[t].n = IF Len(ret[t].snap) > ret[t].size
                             THEN Len(ret[t].snap) - ret[t].size ELSE 0
               /\ Pairs(items, Value)
                      = SubSeq(ret[t].snap, 1,
                               Min(Len(ret[t].snap), ret[t].size))
               /\ size = ret[t].size

\* C10 as amended: while a Resize to n > 0 whose callback has not re-entered
\* the cache (but for Pick, Len, All and Backward) is in progress, the
\* entries left are the newest ones, unchanged and more than n - 1, the
\* evictions counted are those whose callback has returned, and the callback
\* runs for the newest entry removed.  When that Resize
\* returns from a cache of L entries, it returns max(0, L - n), the min(L, n)
\* newest entries are left with their values and order, and the capacity is n.
C10_ResizePositiveAmended ==
    \A t \in Threads :
        /\ \A i \in 1..Len(stack[t]) :
              (stack[t][i].op = "Resize" /\ ~stack[t][i].dirty
                  /\ stack[t][i].size > 0)
              => /\ Len(items) < Len(stack[t][i].snap)
                 /\ Len(items) >= stack[t][i].size
                 /\ Pairs(items, Value)
                        = SubSeq(stack[t][i].snap, 1, Len(items))
                 /\ stack[t][i].ev = Len(stack[t][i].snap) - Len(items) - 1
                 /\ Above(stack[t], i, stack[t][i].snap[Len(items) + 1])
        /\ (ret[t].op = "Resize" /\ ~ret[t].dirty /\ ret[t].size > 0)
              => /\ ret[t].n = IF Len(ret[t].snap) > ret[t].size
                               THEN Len(ret[t].snap) - ret[t].size ELSE 0
                 /\ Pairs(items, Value)
                        = SubSeq(ret[t].snap, 1,
                                 Min(Len(ret[t].snap), ret[t].size))
                 /\ size = ret[t].size

\* A Resize with a callback registered has evicted two entries and returned 2.
C10_Witness ==
    /\ ret[1].op = "Resize"
    /\ ~ret[1].dirty
    /\ evicted # "nil"
    /\ ret[1].size > 0
    /\ ret[1].n = 2
    /\ Len(ret[1].snap) = ret[1].size + 2

\* C7: in TestMutexOnEvictedSet, with another thread reading the cache,
\* nothing fails; user code never runs with the lock held by its own thread;
\* the thread of the test can always take a step until the test is over, but
\* while the reader holds the lock, who then can; the callback is called with
\* ("a", 0) and then ("b", 1) and no more; and when the last Set has
\* returned (the test is over) it was called twice and the thread of the
\* test does not hold the lock.
C7_ReentrantCallback ==
    /\ panic = "none"
    /\ ~test.failed
    /\ \A t \in Threads :
          (stack[t] # <<>> /\ Top(stack[t]).pc = "user") => mut.w # t
    /\ \/ TestDone
       \/ ENABLED TestThread
       \/ mut.r # {} /\ ENABLED ReaderLocked
    /\ Len(test.log) <= 2
    /\ test.log = SubSeq(<<<<TestKeys[1], 0>>, <<TestKeys[2], 1>>>>, 1,
                         Len(test.log))
    /\ TestDone
          => /\ Len(test.log) = 2
             /\ Free(mut) \/ mut.w = 0

\* The test is over: both callbacks were called and "a" is back with 999.
C7_Witness ==
    /\ TestDone
    /\ test.log = <<<<1, 0>>, <<2, 1>>>>
    /\ items = <<1, 4, 3>>
    /\ Value[1].value = TestValue
    /\ mut.w = 0

\* C11 as claimed: a Resize to n <= 0 (whose callback, if called at all, has
\* not re-entered the cache) never calls the eviction callback, and when it
\* returns it returns 0 with the pairs and their order as they were, the
\* capacity being n, under which no Set evicts.
C11_ResizeNonPositive ==
    \A t \in Threads :
        /\ \A i \in 1..Len(stack[t]) :
              (stack[t][i].op = "Resize" /\ stack[t][i].size <= 0
                  /\ ~stack[t][i].dirty)
              => stack[t][i].pc # "cb"
        /\ (ret[t].op = "Resize" /\ ret[t].size <= 0 /\ ~ret[t].dirty)
              => /\ ret[t].n = 0
                 /\ Pairs(items, Value) = ret[t].snap
                 /\ size = ret[t].size
                 /\ ~Full(Cache)

\* User code now running on thread t has called a method of the cache.
Reentered(t) ==
    \E i \in 1..Len(stack[t]) :
        stack[t][i].op \in {"evicted", "yield"} /\ stack[t][i].calls > 0

\* C12 as claimed: a Set, Get, Pick, Remove, RemoveOldest, Len, Clear or
\* Resize (to any size) that the goroutine has called returns in the end,
\* unless its callback re-enters the cache.
C12_Termination ==
    \A op \in {"Set", "Get", "Pick", "Remove", "RemoveOldest", "Len", "Clear",
               "Resize"} :
        (stack[1] # <<>> /\ stack[1][1].op = op)
            ~> (stack[1] = <<>> \/ Reentered(1))

\* The pair that the yield called by frame i of stack stk was called with.
Yielded(stk, i) == <<stk[i + 1].key, stk[i + 1].value>>

\* C13: the list is in the order of the last Set or Get of its keys, newest
\* first.  While an All or a Backward whose yields have not changed the
\* cache is in progress, its j-th yield runs with the j-th pair of the list
\* as it was when the iteration began, counted from the front for All and
\* from the back for Backward; when it has run to the end, it has yielded as
\* many pairs as the list has entries, and the list is as it was.
C13_IterationOrder ==
    /\ [i \in 1..Len(items) |-> Value[items[i]].key] = used
    /\ \A t \in Threads :
          /\ \A i \in 1..Len(stack[t]) :
                LET f == stack[t][i]
                    s == f.snap
                IN  (f.op \in {"All", "Backward"} /\ ~f.dirty /\ f.pc = "yield")
                    => /\ f.ev \in 1..Len(s)
                       /\ Pairs(items, Value) = s
                       /\ stack[t][i + 1].op = "yield"
                       /\ Yielded(stack[t], i)
                              = IF f.op = "All" THEN s[f.ev]
                                ELSE s[Len(s) + 1 - f.ev]
          /\ (ret[t].op \in {"All", "Backward"} /\ ~ret[t].dirty /\ ret[t].ok)
                => /\ ret[t].n = Len(ret[t].snap)
                   /\ Pairs(items, Value) = ret[t].snap
                   /\ Len(items) = Cardinality(DOMAIN elem)

\* A Backward over three entries has run to its end.
C13_Witness ==
    /\ ret[1].op = "Backward"
    /\ ~ret[1].dirty
    /\ ret[1].ok
    /\ ret[1].n = 3
    /\ Len(items) = 3

\* The yield of an iteration of MutexLRU on thread t has returned false, and
\* the closure that called it has the lock again.
Stopping(t) ==
    /\ stack[t] # <<>>
    /\ Top(stack[t]).op = "yield"
    /\ Top(stack[t]).pc = "run"
    /\ ~Top(stack[t]).ok

\* C14: no step of an All or a Backward changes the cache.  When the yield
\* has returned false, the next step of the thread is the return of the
\* iteration, with no other yield, and it leaves the lock free; and if no
\* method that changes the cache was called or went on since the iteration
\* began, on any thread, the pairs, their order and the capacity are as they
\* were then.
C14_IterationEarlyStop ==
    [][\A t \in Threads :
          /\ (/\ stack[t] # <<>>
              /\ Top(stack[t]).pc = "run"
              /\ Resumed(stack[t]) \in {"All", "Backward"}
              /\ stack'[t] # stack[t])
             => <<elem', items', Value', size', evicted'>>
                    = <<elem, items, Value, size, evicted>>
          /\ (Stopping(t) /\ stack'[t] # stack[t])
             => LET f == stack[t][Len(stack[t]) - 1]
                IN  /\ f.op \in {"All", "Backward"}
                    /\ stack'[t] = SubSeq(stack[t], 1, Len(stack[t]) - 2)
                    /\ panic' = "none"
                    /\ Free(mut')
                    /\ ~f.dirty
                          => /\ Pairs(items', Value') = f.snap
                             /\ size' = f.size
      ]_vars

\* The yield of an All over two entries has returned false on the first.
C14_Witness ==
    /\ Stopping(1)
    /\ stack[1][Len(stack[1]) - 1].op = "All"
    /\ stack[1][Len(stack[1]) - 1].ev = 1
    /\ Len(stack[1][Len(stack[1]) - 1].snap) = 2
    /\ ~stack[1][Len(stack[1]) - 1].dirty

\* The step is the call of method op with key k by thread t.
IsCall(t, op, k) == CanCall(t) /\ Run(t, Call(t, op, k, Zero, 0), mut)

\* The call whose step this is has returned r to the code of thread t that
\* made it, without any callback, and has left the cache as it was.
Missed(t, r) ==
    /\ ret'[t] = r
    /\ Len(stack'[t]) = Len(stack[t])
    /\ \A i \in 1..Len(stack[t]) :
          /\ stack'[t][i].op = stack[t][i].op
          /\ stack'[t][i].pc = stack[t][i].pc
    /\ <<elem', items', Value', size', evicted', panic'>>
           = <<elem, items, Value, size, evicted, panic>>
    /\ Pairs(items', Value') = Pairs(items, Value)
    /\ Len(items') = Len(items)

\* C15: Get, Pick and Remove of a key that is not in the cache, and
\* RemoveOldest on an empty cache, return the zero values with found (or
\* removed) false, call no callback, and leave the entries, their order and
\* the length as they were.
C15_MissIsNoOp ==
    [][/\ \A k \in Keys :
             k \notin DOMAIN elem
             => /\ IsCall(1, "Get", k)
                     => Missed(1, Result("Get", k, Zero, FALSE, 0))
                /\ IsCall(1, "Pick", k)
                     => Missed(1, Result("Pick", k, Zero, FALSE, 0))
                /\ IsCall(1, "Remove", k)
                     => Missed(1, Result("Remove", k, Zero, FALSE, 0))
       /\ (Len(items) = 0 /\ IsCall(1, "RemoveOldest", Nil))
             => Missed(1, Result("RemoveOldest", Nil, Zero, FALSE, 0))
      ]_vars

\* With a callback registered, a Remove has missed in a cache of two entries
\* or more.
C15_Witness ==
    /\ evicted = "cb"
    /\ ret[1].op = "Remove"
    /\ ~ret[1].ok
    /\ ret[1].key \notin DOMAIN elem
    /\ Len(items) >= 2

\* Thread t holds the lock as method op takes it.
Holds(t, op) ==
    IF Shared(op) THEN t \in mut.r /\ mut.w = 0
    ELSE mut.w = t /\ mut.r = {}

\* C16: a thread that runs user code, the eviction callback or a yield, does
\* not hold the lock of the MutexLRU; once that code has returned into the
\* method that called it the thread holds the lock again, exclusively; a
\* thread that runs a method under the lock holds it as the method took it;
\* and the lock is free whenever every thread is outside the methods or in
\* user code, in particular when no method is in progress at all.
C16_LockHandOff ==
    /\ \A t \in Threads :
          stack[t] # <<>>
          => /\ Top(stack[t]).pc = "user" => (mut.w # t /\ t \notin mut.r)
             /\ (Top(stack[t]).pc = "run"
                    /\ Top(stack[t]).op \in {"evicted", "yield"})
                   => (mut.w = t /\ mut.r = {})
             /\ Top(stack[t]).pc \in {"run", "loop"}
                   => Holds(t, Resumed(stack[t]))
    /\ (\A t \in Threads : stack[t] = <<>> \/ Top(stack[t]).pc = "user")
          => Free(mut)

\* The callback of thread 1 has returned and the thread has the lock again,
\* while thread 2 is in a yield of its iteration.
C16_Witness ==
    /\ stack[1] # <<>>
    /\ Top(stack[1]).op = "evicted"
    /\ Top(stack[1]).pc = "run"
    /\ mut.w = 1
    /\ stack[2] # <<>>
    /\ Top(stack[2]).op = "yield"
    /\ Top(stack[2]).pc = "user"

\* The threads that run code of LRU, outside the user's callbacks and yields,
\* in one of the methods ops.
InCore(ops) ==
    {t \in Threads : /\ stack[t] # <<>>
                     /\ Top(stack[t]).pc \in {"run", "loop"}
                     /\ Resumed(stack[t]) \in ops}

\* C17: at every instant the threads that run code of LRU are none, or one
\* thread in Set, Get, Remove, RemoveOldest, Resize, Clear, OnEvicted, All or
\* Backward, or threads in Pick and Len only.
C17_MutualExclusion ==
    LET excl == InCore({"Set", "Get", "Remove", "RemoveOldest", "Resize",
                        "Clear", "OnEvicted", "All", "Backward"})
        shrd == InCore({"Pick", "Len"})
    IN  /\ Cardinality(excl) <= 1
        /\ excl # {} => shrd = {}

\* Two threads read under the shared lock at the same time, one of them from
\* inside the callback of a method it called.
C17_Witness ==
    /\ InCore({"Pick", "Len"}) = Threads
    /\ \E t \in Threads : Len(stack[t]) > 1

\* C18: in every state between the steps of the methods, that is at their
\* calls and returns, at every call of the eviction callback or of a yield,
\* and whenever the lock of the MutexLRU is free: the keys of the index are
\* the keys of the list, no element and no key is twice in the list, the
\* index gives for each key the element of the list that holds it, and the
\* length of the list, which Len returns, is the number of keys indexed.
C18_IndexListBijection ==
    /\ DOMAIN Value = Range(items)
    /\ DOMAIN elem = {Value[e].key : e \in Range(items)}
    /\ \A i, j \in 1..Len(items) :
          (items[i] = items[j] \/ Value[items[i]].key = Value[items[j]].key)
          => i = j
    /\ \A k \in DOMAIN elem :
          /\ elem[k] \in Range(items)
          /\ Value[elem[k]].key = k
    /\ Len(items) = Cardinality(DOMAIN elem)

\* The lock is free while an eviction callback runs on one thread and a
\* yield on the other, and the cache is not empty.
C18_Witness ==
    /\ Free(mut)
    /\ items # <<>>
    /\ \E t, u \in Threads :
          /\ stack[t] # <<>> /\ Top(stack[t]).op = "evicted"
          /\ Top(stack[t]).pc = "user"
          /\ stack[u] # <<>> /\ Top(stack[u]).op = "yield"
          /\ Top(stack[u]).pc = "user"

\* What Pick(k) returns in the present state: the value and found.
Picked(k) ==
    IF k \in DOMAIN elem THEN <<Value[elem[k]].value, TRUE>>
    ELSE <<Zero, FALSE>>

\* C19: whenever Set(k, v) has just returned, whatever the capacity and
\* whatever the eviction callback did, k is in the cache and Pick(k) returns
\* (v, true).
C19_ReadYourWrite ==
    ret[1].op = "Set"
        => /\ ret[1].key \in DOMAIN elem
           /\ Picked(ret[1].key) = <<ret[1].value, TRUE>>

\* C19 as amended: the same, provided no eviction callback run during that
\* Set called a method other than Pick, Len, All and Backward.
C19_ReadYourWriteAmended ==
    (ret[1].op = "Set" /\ ~ret[1].dirty)
        => /\ ret[1].key \in DOMAIN elem
           /\ Picked(ret[1].key) = <<ret[1].value, TRUE>>

\* With capacity 1, a Set made from inside an eviction callback has returned,
\* having evicted the entry the cache held; its key is the only one left.
C19_Witness ==
    /\ size = 1
    /\ evicted = "cb"
    /\ stack[1] # <<>>
    /\ Top(stack[1]).op = "evicted"
    /\ ret[1].op = "Set"
    /\ ~ret[1].dirty
    /\ ret[1].value = MaxVal
    /\ Len(items) = 1

\* C20: in a MutexLRU with a callback registered, whenever the lock is free
\* and the capacity is above zero, the cache holds at most as many entries
\* as the capacity, also while a Set or a Resize of some thread is in its
\* callback.
C20_CapacityAtLockBoundaries ==
    (evicted = "mcb" /\ Free(mut) /\ size > 0) => Len(items) <= size

\* C20 as amended: the same, whenever no Resize is in progress on any
\* thread.
C20_CapacityAtLockBoundariesAmended ==
    (evicted = "mcb" /\ Free(mut) /\ size > 0 /\ ~ResizeInProgress)
        => Len(items) <= size

\* The lock is free while both threads are in the eviction callbacks of their
\* Sets, no Resize is in progress, and the cache is full.
C20_Witness ==
    /\ evicted = "mcb"
    /\ Free(mut)
    /\ size = 1
    /\ Len(items) = size
    /\ \A t \in Threads :
          /\ Len(stack[t]) = 2
          /\ stack[t][1].op = "Set"
          /\ Top(stack[t]).op = "evicted"
          /\ Top(stack[t]).pc = "user"

====
